---- MODULE Spec2Model ----
(***************************************************************************)
(* Idea2Blog2: the Orchestrator (orchestrator.py), the ThoughtProcessor    *)
(* (idea2draft2.py) and Draft2Blog (Draft2Blog.py).  Texts are strings     *)
(* (sequences of characters); the tag search, the slice and the strip of   *)
(* the extractors are computed character by character.                     *)
(***************************************************************************)
EXTENDS Integers, Sequences, FiniteSets, TLC

VARIABLES
    current_state,          \* Orchestrator.current_state: <<>> is None, <<d>> the dict d
    current_narrative,      \* ThoughtProcessor.current_narrative
    current_growth_points,  \* ThoughtProcessor.current_growth_points
    interactions,           \* ThoughtProcessor.memory.interactions
    drafts,                 \* Draft2Blog.memory.drafts
    chat,                   \* Draft2Blog.chat history (conversation context)
    calls,                  \* history: one record per call made so far
    probe,                  \* the text handed to the extractors on their own
    relay                   \* the relay: the requests in flight and the event loop

vars == <<current_state, current_narrative, current_growth_points,
          interactions, drafts, chat, calls, probe, relay>>

----------------------------------------------------------------------------
(* Bounds *)

MaxOps == 3       \* calls made on one orchestrator / one converter
MaxPieces == 4    \* pieces concatenated into a probed response text
MaxRequests == 2  \* requests sent to the relay

----------------------------------------------------------------------------
(* Python string primitives *)

Min(S) == CHOOSE x \in S : \A y \in S : x <= y
Max(S) == CHOOSE x \in S : \A y \in S : x >= y

Char(s, i) == SubSeq(s, i, i)

\* str.rfind(t): the last occurrence instead of the first
FindLast(s, t) ==
    LET hits == {i \in 1..(Len(s) - Len(t) + 1) : SubSeq(s, i, i + Len(t) - 1) = t}
    IN  IF hits = {} THEN -1 ELSE Max(hits) - 1

\* str.find(t): 0-based index of the first occurrence of t in s, or -1
Find(s, t) ==
    LET hits == {i \in 1..(Len(s) - Len(t) + 1) : SubSeq(s, i, i + Len(t) - 1) = t}
    IN  IF hits = {} THEN -1 ELSE Min(hits) - 1

\* a slice bound as Python clamps it: negative counts from the end
ClampIndex(s, i) ==
    IF i < 0 THEN (IF i + Len(s) < 0 THEN 0 ELSE i + Len(s))
    ELSE (IF i > Len(s) THEN Len(s) ELSE i)

\* s[a:b]
PySlice(s, a, b) == SubSeq(s, ClampIndex(s, a) + 1, ClampIndex(s, b))

Whitespace == {" ", "\t", "\n", "\r", "\f"}

\* str.strip()
Strip(s) ==
    LET keep == {i \in 1..Len(s) : Char(s, i) \notin Whitespace}
    IN  IF keep = {} THEN "" ELSE SubSeq(s, Min(keep), Max(keep))

\* str.startswith(p)
StartsWith(s, p) == Len(s) >= Len(p) /\ SubSeq(s, 1, Len(p)) = p

----------------------------------------------------------------------------
(* idea2draft2.py *)

\* MemoryObject.add_interaction
add_interaction(log, response, timestamp) ==
    LET k == Len(log) + 1
        interaction ==
            "\n<interaction timestamp=\"" \o timestamp \o "\">\n"
            \o "    <response" \o ToString(k) \o ">\n"
            \o "    " \o response \o "\n"
            \o "    </response" \o ToString(k) \o ">\n"
            \o "</interaction>\n"
    IN  Append(log, interaction)

\* ThoughtProcessor._get_processing_prompt (instruction text elided)
_get_processing_prompt(brain_dump) ==
    "Brain dump to analyze:\n<brain_dump>\n" \o brain_dump \o "\n</brain_dump>\n"

\* ThoughtProcessor._get_refinement_prompt (instruction text elided)
_get_refinement_prompt(narrative, refinement_request) ==
    "Current narrative state:\n<current_narrative>\n" \o narrative
    \o "\n</current_narrative>\n\nFocus area to develop:\n<refinement_focus>\n"
    \o refinement_request \o "\n</refinement_focus>\n"

\* ThoughtProcessor._parse_response.extract_tag_content
extract_tag_content(response, tag) ==
    LET start_tag == "<" \o tag \o ">"
        end_tag   == "</" \o tag \o ">"
        start_idx == Find(response, start_tag) + Len(start_tag)
        end_idx   == Find(response, end_tag)
    IN  Strip(PySlice(response, start_idx, end_idx))

\* ThoughtProcessor._parse_response
_parse_response(response) ==
    [connected_narrative |-> extract_tag_content(response, "connected_narrative"),
     growth_points       |-> extract_tag_content(response, "growth_points"),
     ai_contributions    |-> extract_tag_content(response, "ai_contributions")]

----------------------------------------------------------------------------
(* Draft2Blog.py *)

\* add_draft inserting at the front of the log
add_draft_front(log, original_draft, styled_draft, timestamp) ==
    <<[timestamp      |-> timestamp,
       original_draft |-> original_draft,
       styled_draft   |-> styled_draft]>> \o log

\* BlogMemory.add_draft
add_draft(log, original_draft, styled_draft, timestamp) ==
    Append(log, [timestamp      |-> timestamp,
                 original_draft |-> original_draft,
                 styled_draft   |-> styled_draft])

\* Draft2Blog._get_system_prompt (instruction text elided)
_get_system_prompt == "You are a Style-Enhanced Blog Content Generator."

TagsError == "Could not find styled_draft tags in response"

\* _extract_styled_content without its check for a missing tag
_extract_styled_content_unchecked(response) ==
    LET start_tag == "<styled_draft>"
        end_tag   == "</styled_draft>"
        start_idx == Find(response, start_tag)
        end_idx   == Find(response, end_tag)
    IN  [ok |-> TRUE,
         value |-> Strip(PySlice(response, start_idx + Len(start_tag), end_idx))]

\* Draft2Blog._extract_styled_content: [ok, value] or [not ok, message]
_extract_styled_content(response) ==
    LET start_tag == "<styled_draft>"
        end_tag   == "</styled_draft>"
        start_idx == Find(response, start_tag)
        end_idx   == Find(response, end_tag)
    IN  IF start_idx = -1 \/ end_idx = -1
        THEN [ok |-> FALSE, value |-> TagsError]
        ELSE [ok |-> TRUE,
              value |-> Strip(PySlice(response, start_idx + Len(start_tag), end_idx))]

\* the wrapping step without its test for an already wrapped draft
WrapDraftAlways(draft) == "<draft>" \o draft \o "</draft>"

\* the wrapping step of Draft2Blog.convert_draft
WrapDraft(draft) ==
    IF ~StartsWith(Strip(draft), "<draft>")
    THEN "<draft>" \o draft \o "</draft>"
    ELSE draft

----------------------------------------------------------------------------
(* The remote completion service and the inputs *)

\* the outcome of one completion call: it raises, or it returns a text
RemoteFailure == [ok |-> FALSE, text |-> ""]
Reply(text) == [ok |-> TRUE, text |-> text]

RemoteError == "remote call failed"
FinalizeError == "No content to finalize"

Sections(n, g, c) ==
    "<connected_narrative>" \o n \o "</connected_narrative>"
    \o "<growth_points>" \o g \o "</growth_points>"
    \o "<ai_contributions>" \o c \o "</ai_contributions>"

NarrativeTexts ==
    { Sections("N", "G", "C"),
      Sections("\n N2 \n", " G2", "C2 ") \o "\nDone.",
      "Here is the narrative: N3 <growth_points>G3</growth_points>"
          \o "<ai_contributions>C3</ai_contributions>",
      "<connected_narrative>N4</connected_narrative>"
          \o "<growth_points>G4</growth_points><ai_contributions>C4" }

BlogTexts ==
    { "<styled_draft>S</styled_draft>",
      "Sure.\n<styled_draft>\n S2 \n</styled_draft>\n",
      "S3 with no tags",
      "<styled_draft>S4" }

NarrativeReplies == {RemoteFailure} \cup {Reply(t) : t \in NarrativeTexts}
BlogReplies == {RemoteFailure} \cup {Reply(t) : t \in BlogTexts}

Ideas == {"hello", "idea B"}
Refinements == {"go deeper"}
Drafts == {"X", "<draft>X</draft>", " <draft>Y</draft>", "<draft>Z",
           "<draft><draft>Z</draft>"}

\* datetime.now().isoformat(), as a logical clock: the number of the call
Now == "T" \o ToString(Len(calls) + 1)

----------------------------------------------------------------------------
(* ThoughtProcessor: each operation yields what it raises or returns and   *)
(* the values it leaves in the processor's fields                          *)

\* process_brain_dump leaving the growth points of the previous result
process_brain_dump_stale_growth(brain_dump, reply) ==
    LET prompt == _get_processing_prompt(brain_dump)
        parsed_response == _parse_response(reply.text)
    IN  IF ~reply.ok
        THEN [sent |-> <<prompt>>, status |-> "raise", error |-> RemoteError,
              sections |-> <<>>,
              interactions |-> interactions,
              current_narrative |-> current_narrative,
              current_growth_points |-> current_growth_points]
        ELSE [sent |-> <<prompt>>, status |-> "ok", error |-> "",
              sections |-> <<parsed_response>>,
              interactions |-> add_interaction(interactions, reply.text, Now),
              current_narrative |-> parsed_response.connected_narrative,
              current_growth_points |-> current_growth_points]

process_brain_dump(brain_dump, reply) ==
    LET prompt == _get_processing_prompt(brain_dump)
        parsed_response == _parse_response(reply.text)
    IN  IF ~reply.ok
        THEN [sent |-> <<prompt>>, status |-> "raise", error |-> RemoteError,
              sections |-> <<>>,
              interactions |-> interactions,
              current_narrative |-> current_narrative,
              current_growth_points |-> current_growth_points]
        ELSE [sent |-> <<prompt>>, status |-> "ok", error |-> "",
              sections |-> <<parsed_response>>,
              interactions |-> add_interaction(interactions, reply.text, Now),
              current_narrative |-> parsed_response.connected_narrative,
              current_growth_points |-> parsed_response.growth_points]

\* refine_narrative leaving the narrative it started from in place
refine_narrative_nochain(refinement_request, reply) ==
    LET prompt == _get_refinement_prompt(current_narrative, refinement_request)
        parsed_response == _parse_response(reply.text)
    IN  IF ~reply.ok
        THEN [sent |-> <<prompt>>, status |-> "raise", error |-> RemoteError,
              sections |-> <<>>,
              interactions |-> interactions,
              current_narrative |-> current_narrative,
              current_growth_points |-> current_growth_points]
        ELSE [sent |-> <<prompt>>, status |-> "ok", error |-> "",
              sections |-> <<parsed_response>>,
              interactions |-> add_interaction(interactions, reply.text, Now),
              current_narrative |-> current_narrative,
              current_growth_points |-> parsed_response.growth_points]

refine_narrative(refinement_request, reply) ==
    LET prompt == _get_refinement_prompt(current_narrative, refinement_request)
        parsed_response == _parse_response(reply.text)
    IN  IF ~reply.ok
        THEN [sent |-> <<prompt>>, status |-> "raise", error |-> RemoteError,
              sections |-> <<>>,
              interactions |-> interactions,
              current_narrative |-> current_narrative,
              current_growth_points |-> current_growth_points]
        ELSE [sent |-> <<prompt>>, status |-> "ok", error |-> "",
              sections |-> <<parsed_response>>,
              interactions |-> add_interaction(interactions, reply.text, Now),
              current_narrative |-> parsed_response.connected_narrative,
              current_growth_points |-> parsed_response.growth_points]

----------------------------------------------------------------------------
(* Draft2Blog *)

\* ChatSession.send_message: the two turns a completed exchange adds
send_message(history, message, reply) ==
    IF reply.ok
    THEN history \o <<[role |-> "user", parts |-> message],
                      [role |-> "model", parts |-> reply.text]>>
    ELSE history

convert_draft(draft, reply) ==
    LET wrapped == WrapDraft(draft)
        styled_content == _extract_styled_content(reply.text)
    IN  IF ~reply.ok
        THEN [sent |-> <<wrapped>>, status |-> "raise", error |-> RemoteError,
              blog |-> <<>>, chat |-> send_message(chat, wrapped, reply),
              drafts |-> drafts]
        ELSE IF ~styled_content.ok
        THEN [sent |-> <<wrapped>>, status |-> "raise",
              error |-> styled_content.value,
              blog |-> <<>>, chat |-> send_message(chat, wrapped, reply),
              drafts |-> drafts]
        ELSE [sent |-> <<wrapped>>, status |-> "ok", error |-> "",
              blog |-> <<styled_content.value>>,
              chat |-> send_message(chat, wrapped, reply),
              drafts |-> add_draft(drafts, wrapped, styled_content.value, Now)]

----------------------------------------------------------------------------
(* Orchestrator *)

NoProbe == [stage |-> "none", tag |-> "", text |-> "", out |-> [ok |-> FALSE, value |-> ""]]

\* no request has arrived and no handler holds the event loop
NoOutcome == [sent |-> <<>>, status |-> "", error |-> "", sections |-> <<>>,
              blog |-> <<>>]
NoResponse == [status_code |-> 0, detail |-> "", body |-> <<>>]
NoRequest == [kind |-> "", arg |-> "", pc |-> "none", draft |-> "",
              reply |-> RemoteFailure, outcome |-> NoOutcome,
              response |-> NoResponse]
NoRelay == [running |-> 0, reqs |-> [r \in 1..MaxRequests |-> NoRequest]]

Call(op, arg, reply, r, sections, blog) ==
    [op |-> op, arg |-> arg, reply |-> reply, sent |-> r.sent,
     status |-> r.status, error |-> r.error, sections |-> sections, blog |-> blog]

Init ==
    /\ current_state = <<>>
    /\ current_narrative = ""
    /\ current_growth_points = ""
    /\ interactions = <<>>
    /\ drafts = <<>>
    /\ chat = <<[role |-> "user", parts |-> _get_system_prompt]>>
    /\ calls = <<>>
    /\ probe = NoProbe
    /\ relay = NoRelay

\* process_initial_idea storing its result only while no state is held
process_initial_idea_keep(idea, reply) ==
    LET result == process_brain_dump(idea, reply)
    IN  /\ Len(calls) < MaxOps
        /\ interactions' = result.interactions
        /\ current_narrative' = result.current_narrative
        /\ current_growth_points' = result.current_growth_points
        /\ current_state' = IF result.status = "ok" /\ current_state = <<>>
                            THEN result.sections
                            ELSE current_state
        /\ calls' = Append(calls, Call("process", idea, reply, result,
                                       result.sections, <<>>))
        /\ UNCHANGED <<drafts, chat, probe, relay>>

process_initial_idea(idea, reply) ==
    LET result == process_brain_dump(idea, reply)
    IN  /\ Len(calls) < MaxOps
        /\ interactions' = result.interactions
        /\ current_narrative' = result.current_narrative
        /\ current_growth_points' = result.current_growth_points
        /\ current_state' = IF result.status = "ok" THEN result.sections
                            ELSE current_state
        /\ calls' = Append(calls, Call("process", idea, reply, result,
                                       result.sections, <<>>))
        /\ UNCHANGED <<drafts, chat, probe, relay>>

\* refine_content returning its result without storing it
refine_content_nostore(refinement, reply) ==
    LET result == refine_narrative(refinement, reply)
    IN  /\ Len(calls) < MaxOps
        /\ interactions' = result.interactions
        /\ current_narrative' = result.current_narrative
        /\ current_growth_points' = result.current_growth_points
        /\ current_state' = current_state
        /\ calls' = Append(calls, Call("refine", refinement, reply, result,
                                       result.sections, <<>>))
        /\ UNCHANGED <<drafts, chat, probe, relay>>

refine_content(refinement, reply) ==
    LET result == refine_narrative(refinement, reply)
    IN  /\ Len(calls) < MaxOps
        /\ interactions' = result.interactions
        /\ current_narrative' = result.current_narrative
        /\ current_growth_points' = result.current_growth_points
        /\ current_state' = IF result.status = "ok" THEN result.sections
                            ELSE current_state
        /\ calls' = Append(calls, Call("refine", refinement, reply, result,
                                       result.sections, <<>>))
        /\ UNCHANGED <<drafts, chat, probe, relay>>

\* finalize_to_blog without its check of current_state: subscripting None
\* raises a TypeError
finalize_to_blog_unchecked(reply) ==
    /\ Len(calls) < MaxOps
    /\ IF current_state = <<>>
       THEN /\ calls' = Append(calls,
                   Call("finalize", "", RemoteFailure,
                        [sent |-> <<>>, status |-> "raise",
                         error |-> "'NoneType' object is not subscriptable"],
                        <<>>, <<>>))
            /\ UNCHANGED <<drafts, chat>>
       ELSE LET result == convert_draft(current_state[1].connected_narrative, reply)
            IN  /\ drafts' = result.drafts
                /\ chat' = result.chat
                /\ calls' = Append(calls, Call("finalize", "", reply, result,
                                               <<>>, result.blog))
    /\ UNCHANGED <<current_state, current_narrative, current_growth_points,
                   interactions, probe, relay>>

\* finalize_to_blog dropping the state once the blog post is made
finalize_to_blog_reset(reply) ==
    /\ Len(calls) < MaxOps
    /\ IF current_state = <<>>
       THEN /\ calls' = Append(calls,
                   Call("finalize", "", RemoteFailure,
                        [sent |-> <<>>, status |-> "raise", error |-> FinalizeError],
                        <<>>, <<>>))
            /\ UNCHANGED <<drafts, chat, current_state>>
       ELSE LET result == convert_draft(current_state[1].connected_narrative, reply)
            IN  /\ drafts' = result.drafts
                /\ chat' = result.chat
                /\ current_state' = IF result.status = "ok" THEN <<>>
                                    ELSE current_state
                /\ calls' = Append(calls, Call("finalize", "", reply, result,
                                               <<>>, result.blog))
    /\ UNCHANGED <<current_narrative, current_growth_points, interactions, probe, relay>>

finalize_to_blog(reply) ==
    /\ Len(calls) < MaxOps
    /\ IF current_state = <<>>
       THEN /\ calls' = Append(calls,
                   Call("finalize", "", RemoteFailure,
                        [sent |-> <<>>, status |-> "raise", error |-> FinalizeError],
                        <<>>, <<>>))
            /\ UNCHANGED <<drafts, chat>>
       ELSE LET result == convert_draft(current_state[1].connected_narrative, reply)
            IN  /\ drafts' = result.drafts
                /\ chat' = result.chat
                /\ calls' = Append(calls, Call("finalize", "", reply, result,
                                               <<>>, result.blog))
    /\ UNCHANGED <<current_state, current_narrative, current_growth_points,
                   interactions, probe, relay>>

Next ==
    \/ \E idea \in Ideas, reply \in NarrativeReplies : process_initial_idea(idea, reply)
    \/ \E refinement \in Refinements, reply \in NarrativeReplies :
           refine_content(refinement, reply)
    \/ \E reply \in BlogReplies : finalize_to_blog(reply)

Spec == Init /\ [][Next]_vars

----------------------------------------------------------------------------
(* Draft2Blog used on its own (Draft2Blog.main) *)

ConvertDraft(draft, reply) ==
    LET result == convert_draft(draft, reply)
    IN  /\ Len(calls) < MaxOps
        /\ drafts' = result.drafts
        /\ chat' = result.chat
        /\ calls' = Append(calls, Call("convert", draft, reply, result,
                                       <<>>, result.blog))
        /\ UNCHANGED <<current_state, current_narrative, current_growth_points,
                       interactions, probe, relay>>

NextConvert == \E draft \in Drafts, reply \in BlogReplies : ConvertDraft(draft, reply)

SpecConvert == Init /\ [][NextConvert]_vars

----------------------------------------------------------------------------
(* The two extractors on their own, over every text made of at most        *)
(* MaxPieces pieces: the open tag, the close tag, a letter, a blank        *)

SectionTags == {"connected_narrative", "growth_points", "ai_contributions"}
StyledTag == "styled_draft"

Pieces(tag) == {"<" \o tag \o ">", "</" \o tag \o ">", "a", " "}

RECURSIVE Concats(_, _)
Concats(P, n) ==
    IF n = 0 THEN {""}
    ELSE LET shorter == Concats(P, n - 1)
         IN  shorter \cup {s \o p : s \in shorter, p \in P}

InitExtract ==
    /\ current_state = <<>>
    /\ current_narrative = ""
    /\ current_growth_points = ""
    /\ interactions = <<>>
    /\ drafts = <<>>
    /\ chat = <<[role |-> "user", parts |-> _get_system_prompt]>>
    /\ calls = <<>>
    /\ \E tag \in SectionTags \cup {StyledTag} :
         \E text \in Concats(Pieces(tag), MaxPieces) :
           probe = [stage |-> "text", tag |-> tag, text |-> text,
                    out |-> [ok |-> FALSE, value |-> ""]]
    /\ relay = NoRelay

ExtractSection ==
    /\ probe.stage = "text"
    /\ probe.tag \in SectionTags
    /\ probe' = [probe EXCEPT !.stage = "done",
                   !.out = [ok |-> TRUE,
                            value |-> extract_tag_content(probe.text, probe.tag)]]
    /\ UNCHANGED <<current_state, current_narrative, current_growth_points,
                   interactions, drafts, chat, calls, relay>>

ExtractStyled ==
    /\ probe.stage = "text"
    /\ probe.tag = StyledTag
    /\ probe' = [probe EXCEPT !.stage = "done",
                   !.out = _extract_styled_content(probe.text)]
    /\ UNCHANGED <<current_state, current_narrative, current_growth_points,
                   interactions, drafts, chat, calls, relay>>

NextExtract == ExtractSection \/ ExtractStyled

SpecExtract == InitExtract /\ [][NextExtract]_vars

----------------------------------------------------------------------------
(* The relay (orchestrator.py, the three POST endpoints).  A request is    *)
(* in flight from its arrival to its response.  Each endpoint is an async  *)
(* function whose body has no await: its handler runs on the event loop    *)
(* from its first statement to its return.  A handler is taken in two      *)
(* steps, parted where it has read or written the shared objects once and  *)
(* has yet to write them again.                                            *)

\* the event loop takes the next handler only when none is running
EventLoopFree_threadpool == TRUE

EventLoopFree == relay.running = 0

\* the endpoints returning a client error for the orchestrator's ValueError
relay_response_client_error(kind, outcome) ==
    IF outcome.status = "raise"
    THEN [status_code |-> IF outcome.error = FinalizeError THEN 400 ELSE 500,
          detail |-> outcome.error, body |-> <<>>]
    ELSE [status_code |-> 200, detail |-> "",
          body |-> IF kind = "finalize" THEN <<[blog_post |-> outcome.blog[1]]>>
                   ELSE outcome.sections]

\* try: return the result / except Exception as e: HTTPException(500, str(e))
relay_response(kind, outcome) ==
    IF outcome.status = "raise"
    THEN [status_code |-> 500, detail |-> outcome.error, body |-> <<>>]
    ELSE [status_code |-> 200, detail |-> "",
          body |-> IF kind = "finalize" THEN <<[blog_post |-> outcome.blog[1]]>>
                   ELSE outcome.sections]

\* a request reaches the server; requests are numbered in order of arrival
Arrive(r, kind, arg) ==
    /\ relay.reqs[r].pc = "none"
    /\ IF r = 1 THEN TRUE ELSE relay.reqs[r - 1].pc # "none"
    /\ relay' = [relay EXCEPT !.reqs[r] =
                    [NoRequest EXCEPT !.kind = kind, !.arg = arg, !.pc = "waiting"]]
    /\ UNCHANGED <<current_state, current_narrative, current_growth_points,
                   interactions, drafts, chat, calls, probe>>

\* process_idea / refine_content up to the return of the processor's method
BeginNarrative(r, reply) ==
    LET q == relay.reqs[r]
        result == IF q.kind = "process" THEN process_brain_dump(q.arg, reply)
                  ELSE refine_narrative(q.arg, reply)
    IN  /\ EventLoopFree
        /\ q.pc = "waiting"
        /\ q.kind \in {"process", "refine"}
        /\ interactions' = result.interactions
        /\ current_narrative' = result.current_narrative
        /\ current_growth_points' = result.current_growth_points
        /\ relay' = [relay EXCEPT !.running = r,
                        !.reqs[r].pc = "running",
                        !.reqs[r].reply = reply,
                        !.reqs[r].outcome =
                            [sent |-> result.sent, status |-> result.status,
                             error |-> result.error, sections |-> result.sections,
                             blog |-> <<>>]]
        /\ UNCHANGED <<current_state, drafts, chat, calls, probe>>

\* ... and from there: self.current_state = result, and the response
EndNarrative(r) ==
    LET q == relay.reqs[r]
    IN  /\ q.pc = "running"
        /\ q.kind \in {"process", "refine"}
        /\ current_state' = IF q.outcome.status = "ok" THEN q.outcome.sections
                            ELSE current_state
        /\ calls' = Append(calls, Call(q.kind, q.arg, q.reply, q.outcome,
                                       q.outcome.sections, <<>>))
        /\ relay' = [relay EXCEPT !.running = 0,
                        !.reqs[r].pc = "done",
                        !.reqs[r].response = relay_response(q.kind, q.outcome)]
        /\ UNCHANGED <<current_narrative, current_growth_points, interactions,
                       drafts, chat, probe>>

\* finalize_to_blog up to the read of current_state["connected_narrative"]
BeginFinalize(r) ==
    LET q == relay.reqs[r]
    IN  /\ EventLoopFree
        /\ q.pc = "waiting"
        /\ q.kind = "finalize"
        /\ relay' = [relay EXCEPT !.running = r,
                        !.reqs[r].pc = "running",
                        !.reqs[r].draft =
                            IF current_state = <<>> THEN ""
                            ELSE current_state[1].connected_narrative,
                        !.reqs[r].outcome =
                            IF current_state = <<>>
                            THEN [NoOutcome EXCEPT !.status = "raise",
                                                   !.error = FinalizeError]
                            ELSE NoOutcome]
        /\ UNCHANGED <<current_state, current_narrative, current_growth_points,
                       interactions, drafts, chat, calls, probe>>

\* ... and from there: convert_draft, and the response
EndFinalize(r, reply) ==
    LET q == relay.reqs[r]
        result == convert_draft(q.draft, reply)
        outcome == IF q.outcome.status = "raise" THEN q.outcome
                   ELSE [sent |-> result.sent, status |-> result.status,
                         error |-> result.error, sections |-> <<>>,
                         blog |-> result.blog]
    IN  /\ q.pc = "running"
        /\ q.kind = "finalize"
        /\ drafts' = IF q.outcome.status = "raise" THEN drafts ELSE result.drafts
        /\ chat' = IF q.outcome.status = "raise" THEN chat ELSE result.chat
        /\ calls' = Append(calls,
                       Call("finalize", "",
                            IF q.outcome.status = "raise" THEN RemoteFailure ELSE reply,
                            outcome, <<>>, outcome.blog))
        /\ relay' = [relay EXCEPT !.running = 0,
                        !.reqs[r].pc = "done",
                        !.reqs[r].reply =
                            IF q.outcome.status = "raise" THEN RemoteFailure ELSE reply,
                        !.reqs[r].outcome = outcome,
                        !.reqs[r].response = relay_response("finalize", outcome)]
        /\ UNCHANGED <<current_state, current_narrative, current_growth_points,
                       interactions, probe>>

\* the handler of request r starts
HandlerStarts(r) ==
    \/ \E reply \in NarrativeReplies : BeginNarrative(r, reply)
    \/ BeginFinalize(r)

NextRelay ==
    \E r \in 1..MaxRequests :
        \/ \E idea \in Ideas : Arrive(r, "process", idea)
        \/ \E refinement \in Refinements : Arrive(r, "refine", refinement)
        \/ Arrive(r, "finalize", "")
        \/ \E reply \in NarrativeReplies : BeginNarrative(r, reply)
        \/ EndNarrative(r)
        \/ BeginFinalize(r)
        \/ \E reply \in BlogReplies : EndFinalize(r, reply)

SpecRelay == Init /\ [][NextRelay]_vars

----------------------------------------------------------------------------
(* Vocabulary of the properties *)

\* the call made by the current step
Made == calls'[Len(calls')]
Makes(op) == Len(calls') = Len(calls) + 1 /\ Made.op = op

\* the latest call made
Last == calls[Len(calls)]

Occurrences(s, t) == {i \in 1..(Len(s) - Len(t) + 1) : SubSeq(s, i, i + Len(t) - 1) = t}
Contains(s, t) == Occurrences(s, t) # {}
OpenTag(tag) == "<" \o tag \o ">"
CloseTag(tag) == "</" \o tag \o ">"
HasBoth(text, tag) == Contains(text, OpenTag(tag)) /\ Contains(text, CloseTag(tag))
WellFormed(text) == \A tag \in SectionTags : HasBoth(text, tag)

\* t occurs in s at position i and nowhere before
FirstAt(s, t, i) ==
    /\ i + Len(t) - 1 <= Len(s)
    /\ SubSeq(s, i, i + Len(t) - 1) = t
    /\ \A k \in 1..(i - 1) : SubSeq(s, k, k + Len(t) - 1) # t

AllBlank(s) == \A k \in 1..Len(s) : Char(s, k) \in Whitespace

\* r is s without its leading and trailing whitespace
IsTrimOf(r, s) ==
    /\ \E a \in 0..Len(s) : \E b \in 0..(Len(s) - a) :
          /\ a + Len(r) + b = Len(s)
          /\ AllBlank(SubSeq(s, 1, a))
          /\ SubSeq(s, a + 1, a + Len(r)) = r
          /\ AllBlank(SubSeq(s, a + Len(r) + 1, Len(s)))
    /\ r # "" => (Char(r, 1) \notin Whitespace /\ Char(r, Len(r)) \notin Whitespace)

\* r is the trimmed text between the end of the first open tag and the
\* start of the first close tag of text (no text lies between them when the
\* close tag comes first)
IsSection(r, text, tag) ==
    \A i \in 1..Len(text) : FirstAt(text, OpenTag(tag), i) =>
        \A j \in 1..Len(text) : FirstAt(text, CloseTag(tag), j) =>
            IF j <= i + Len(OpenTag(tag)) THEN r = ""
            ELSE IsTrimOf(r, SubSeq(text, i + Len(OpenTag(tag)), j - 1))

NoProcessSucceeded ==
    \A i \in 1..Len(calls) : ~(calls[i].op = "process" /\ calls[i].status = "ok")

----------------------------------------------------------------------------
(* Properties *)

\* C1: refine_content on an orchestrator on which no process_initial_idea
\* has succeeded (EMPTY) raises without issuing a completion call, stays
\* EMPTY and leaves the processor's narrative, growth points and
\* interaction log unchanged.
C1_RefineInEmptyRaises ==
    [][(current_state = <<>> /\ NoProcessSucceeded /\ Makes("refine"))
       => /\ Made.status = "raise"
          /\ Made.sent = <<>>
          /\ current_state' = <<>>
          /\ UNCHANGED <<current_narrative, current_growth_points, interactions>>]_vars

\* C2: finalize_to_blog in EMPTY raises "No content to finalize" before any
\* completion call and leaves the orchestrator state, the draft log and the
\* conversation context unchanged.
C2_FinalizeInEmptyRaises ==
    [][(current_state = <<>> /\ Makes("finalize"))
       => /\ Made.status = "raise"
          /\ Made.error = FinalizeError
          /\ Made.sent = <<>>
          /\ UNCHANGED <<current_state, current_narrative, current_growth_points,
                         interactions, drafts, chat>>]_vars

C2_Witness ==
    /\ Len(calls) > 0
    /\ Last.op = "finalize"
    /\ Last.error = FinalizeError
    /\ current_state = <<>>

\* C3: current_state is defined if and only if some process_initial_idea
\* call has succeeded.
C3_DefinedIffProcessSucceeded ==
    (current_state # <<>>) <=> ~NoProcessSucceeded

\* C4: a process call whose response lacks the open or close tag of a
\* section raises, returns no sections and leaves current_state as it was.
C4_MalformedProcessRaises ==
    [][(Makes("process") /\ Made.reply.ok /\ ~WellFormed(Made.reply.text))
       => /\ Made.status = "raise"
          /\ Made.sections = <<>>
          /\ current_state' = current_state]_vars

\* C5: with a narrative stored, a refine call whose completion call fails or
\* whose response lacks a required section leaves current_state, the current
\* narrative and the current growth points as they were.
C5_FailedRefineKeepsNarrative ==
    [][(~NoProcessSucceeded /\ Makes("refine") /\ (~Made.reply.ok \/ ~WellFormed(Made.reply.text)))
       => UNCHANGED <<current_state, current_narrative, current_growth_points>>]_vars

\* C6: for a text holding both the open and the close tag of a section,
\* each extractor returns the trimmed text between the end of the first open
\* tag and the start of the first close tag.
C6_ExtractBetweenFirstTags ==
    (probe.stage = "done" /\ HasBoth(probe.text, probe.tag))
    => /\ probe.out.ok
       /\ IsSection(probe.out.value, probe.text, probe.tag)

\* a tag occurs twice and the extracted text is not empty
C6_Witness ==
    /\ probe.stage = "done"
    /\ HasBoth(probe.text, probe.tag)
    /\ Cardinality(Occurrences(probe.text, OpenTag(probe.tag))) >= 2
    /\ probe.out.value = "a"

\* the first close tag precedes the first open tag
C6_WitnessCloseFirst ==
    /\ probe.stage = "done"
    /\ HasBoth(probe.text, probe.tag)
    /\ Find(probe.text, CloseTag(probe.tag)) < Find(probe.text, OpenTag(probe.tag))
    /\ probe.out.value = ""

\* C7: a convert call whose response lacks the <styled_draft> open tag or
\* the </styled_draft> close tag raises the missing-tags error, returns no
\* styled string and appends nothing to the draft log.
C7_MissingStyledTagRaises ==
    [][(Makes("convert") /\ Made.reply.ok /\ ~HasBoth(Made.reply.text, StyledTag))
       => /\ Made.status = "raise"
          /\ Made.error = TagsError
          /\ Made.blog = <<>>
          /\ drafts' = drafts]_vars

C7_Witness ==
    /\ Len(calls) > 0
    /\ Last.op = "convert"
    /\ Last.reply.ok
    /\ ~HasBoth(Last.reply.text, StyledTag)
    /\ Last.status = "raise"
    /\ Len(drafts) > 0

\* C8: each log holds one entry per successful call, in call order; a step
\* only appends to a log, at most one entry, and a call that raises appends
\* none.
OkConversions ==
    SelectSeq(calls, LAMBDA c : c.op \in {"finalize", "convert"} /\ c.status = "ok")
OkNarratives ==
    SelectSeq(calls, LAMBDA c : c.op \in {"process", "refine"} /\ c.status = "ok")

C8_OnePerSuccess ==
    /\ Len(drafts) = Len(OkConversions)
    /\ \A i \in 1..Len(drafts) :
          /\ drafts[i].original_draft = OkConversions[i].sent[1]
          /\ drafts[i].styled_draft = OkConversions[i].blog[1]
    /\ Len(interactions) = Len(OkNarratives)
    /\ \A i \in 1..Len(interactions) :
          Contains(interactions[i],
                   "<response" \o ToString(i) \o ">\n    "
                   \o OkNarratives[i].reply.text \o "\n")

C8_AppendOnly ==
    /\ Len(drafts') \in {Len(drafts), Len(drafts) + 1}
    /\ SubSeq(drafts', 1, Len(drafts)) = drafts
    /\ Len(interactions') \in {Len(interactions), Len(interactions) + 1}
    /\ SubSeq(interactions', 1, Len(interactions)) = interactions
    /\ (Len(calls') = Len(calls) + 1 /\ Made.status = "raise")
       => UNCHANGED <<drafts, interactions>>

C8_LogsCountSuccesses == []C8_OnePerSuccess /\ [][C8_AppendOnly]_vars

C8_Witness ==
    /\ Len(drafts) >= 1
    /\ Len(interactions) >= 2
    /\ \E i \in 1..Len(calls) : calls[i].status = "ok"

\* C9 as stated: for every X, convert_draft("<draft>X</draft>") sends the
\* string that convert_draft(X) sends.
Wrapped(x) == "<draft>" \o x \o "</draft>"

C9_WrapIdempotentForEveryText ==
    \A i \in 1..Len(calls) : \A j \in 1..Len(calls) :
        (calls[i].op = "convert" /\ calls[j].op = "convert"
         /\ calls[j].arg = Wrapped(calls[i].arg))
        => calls[j].sent = calls[i].sent

\* s begins, after leading whitespace, with the open tag
BeginsWithDraftTag(s) ==
    \E a \in 0..Len(s) :
        /\ AllBlank(SubSeq(s, 1, a))
        /\ a + 7 <= Len(s)
        /\ SubSeq(s, a + 1, a + 7) = "<draft>"

\* C9 amended: for every X that does not itself begin with the open tag,
\* convert_draft("<draft>X</draft>") sends the string convert_draft(X)
\* sends; an input that begins with the open tag is sent as it is; a
\* recorded original_draft is the string sent.
C9_WrapIdempotent ==
    /\ \A i \in 1..Len(calls) : \A j \in 1..Len(calls) :
          (calls[i].op = "convert" /\ calls[j].op = "convert"
           /\ ~BeginsWithDraftTag(calls[i].arg)
           /\ calls[j].arg = Wrapped(calls[i].arg))
          => calls[j].sent = calls[i].sent
    /\ \A i \in 1..Len(calls) :
          (calls[i].op = "convert" /\ BeginsWithDraftTag(calls[i].arg))
          => calls[i].sent = <<calls[i].arg>>
    /\ \A i \in 1..Len(drafts) : drafts[i].original_draft = OkConversions[i].sent[1]

C9_Witness ==
    \E i \in 1..Len(calls) : \E j \in 1..Len(calls) :
        /\ calls[i].op = "convert" /\ calls[j].op = "convert"
        /\ calls[i].arg = "X"
        /\ calls[j].arg = Wrapped("X")
        /\ calls[i].status = "ok" /\ calls[j].status = "ok"
        /\ calls[i].sent = calls[j].sent

\* C10: process_initial_idea succeeds whenever its completion call does, in
\* EMPTY as in HAS_NARRATIVE; after a successful call current_state and the
\* processor's narrative and growth points are the sections of that call's
\* response and nothing else.
C10_ProcessOverwrites ==
    /\ \A i \in 1..Len(calls) :
          (calls[i].op = "process" /\ calls[i].reply.ok) => calls[i].status = "ok"
    /\ (Len(calls) > 0 /\ Last.op = "process" /\ Last.status = "ok")
       => /\ current_state # <<>>
          /\ current_state = Last.sections
          /\ current_narrative = current_state[1].connected_narrative
          /\ current_growth_points = current_state[1].growth_points
          /\ \A tag \in SectionTags :
                HasBoth(Last.reply.text, tag)
                => IsSection(current_state[1][tag], Last.reply.text, tag)

\* process(A), a refine, then process(B), all three successful
C10_Witness ==
    /\ Len(calls) = 3
    /\ calls[1].op = "process" /\ calls[1].status = "ok"
    /\ calls[2].op = "refine" /\ calls[2].status = "ok"
    /\ calls[3].op = "process" /\ calls[3].status = "ok"
    /\ WellFormed(calls[1].reply.text) /\ WellFormed(calls[3].reply.text)
    /\ calls[1].reply.text # calls[3].reply.text
    /\ current_state[1].connected_narrative = "N2"

\* the successful process/refine calls made before call i, and the
\* connected_narrative the latest of them returned (C11 and C15 speak of
\* the latest call, which every call once was)
PriorOk(i) ==
    {j \in 1..(i - 1) : calls[j].op \in {"process", "refine"} /\ calls[j].status = "ok"}
LatestNarrative(i) == calls[Max(PriorOk(i))].sections[1].connected_narrative

\* C11: with a narrative held, finalize_to_blog sends exactly one message,
\* the connected_narrative of the latest successful process/refine in its
\* <draft> wrapping, and returns the trimmed styled_draft section of the
\* response; the N/G/C response makes process return {N, G, C} and the
\* response <styled_draft>S</styled_draft> makes finalize return "S".
C11_FinalizeConvertsLatestNarrative ==
    /\ \A i \in {Len(calls)} \ {0} :
          (calls[i].op = "finalize" /\ PriorOk(i) # {})
          => /\ calls[i].sent =
                   IF BeginsWithDraftTag(LatestNarrative(i))
                   THEN <<LatestNarrative(i)>>
                   ELSE <<Wrapped(LatestNarrative(i))>>
             /\ (calls[i].reply.ok /\ HasBoth(calls[i].reply.text, StyledTag))
                => /\ calls[i].status = "ok"
                   /\ Len(calls[i].blog) = 1
                   /\ IsSection(calls[i].blog[1], calls[i].reply.text, StyledTag)
             /\ calls[i].reply = Reply("<styled_draft>S</styled_draft>")
                => calls[i].blog = <<"S">>
    /\ \A i \in {Len(calls)} \ {0} :
          (calls[i].op = "process" /\ calls[i].reply = Reply(Sections("N", "G", "C")))
          => calls[i].sections = <<[connected_narrative |-> "N",
                                    growth_points |-> "G",
                                    ai_contributions |-> "C"]>>

\* process, a refine that changes the narrative, then a successful finalize
C11_Witness ==
    /\ Len(calls) = 3
    /\ calls[1].op = "process" /\ calls[1].status = "ok"
    /\ calls[2].op = "refine" /\ calls[2].status = "ok"
    /\ calls[1].sections[1].connected_narrative = "N"
    /\ calls[2].sections[1].connected_narrative = "N2"
    /\ calls[3].op = "finalize" /\ calls[3].blog = <<"S">>
    /\ calls[3].sent = <<"<draft>N2</draft>">>

\* C12: finalize_to_blog, raising or not, leaves current_state, the
\* processor's narrative and growth points and the interaction log as they
\* were.
C12_FinalizeKeepsState ==
    [][Makes("finalize")
       => UNCHANGED <<current_state, current_narrative, current_growth_points,
                      interactions>>]_vars

\* process, a successful finalize, then a refine starting from the same narrative
C12_Witness ==
    /\ Len(calls) = 3
    /\ calls[1].op = "process" /\ calls[1].status = "ok"
    /\ calls[2].op = "finalize" /\ calls[2].status = "ok"
    /\ calls[3].op = "refine"
    /\ Contains(calls[3].sent[1],
                "<current_narrative>\n" \o calls[1].sections[1].connected_narrative
                \o "\n</current_narrative>")

\* C15: the prompt of a refine call embeds, in the current_narrative tags,
\* the connected_narrative of the latest successful process/refine call and,
\* in the refinement_focus tags, the call's own request.
C15_RefinePromptChains ==
    \A i \in {Len(calls)} \ {0} :
        (calls[i].op = "refine" /\ PriorOk(i) # {})
        => /\ Len(calls[i].sent) = 1
           /\ Contains(calls[i].sent[1],
                       "<current_narrative>\n" \o LatestNarrative(i)
                       \o "\n</current_narrative>")
           /\ Contains(calls[i].sent[1],
                       "<refinement_focus>\n" \o calls[i].arg
                       \o "\n</refinement_focus>")

\* a refine that starts from the result of an earlier refine
C15_Witness ==
    /\ Len(calls) = 3
    /\ calls[1].op = "process" /\ calls[1].status = "ok"
    /\ calls[2].op = "refine" /\ calls[2].status = "ok"
    /\ calls[3].op = "refine"
    /\ calls[1].sections[1].connected_narrative = "N"
    /\ calls[2].sections[1].connected_narrative = "N2"

\* C16: when current_state is defined, its connected_narrative and
\* growth_points are the processor's current narrative and growth points.
C16_StateMatchesProcessor ==
    current_state # <<>>
    => /\ current_state[1].connected_narrative = current_narrative
       /\ current_state[1].growth_points = current_growth_points

\* a failed refine after two successful process calls with different results
C16_Witness ==
    /\ Len(calls) = 3
    /\ calls[1].op = "process" /\ calls[1].status = "ok"
    /\ calls[2].op = "process" /\ calls[2].status = "ok"
    /\ calls[1].sections # calls[2].sections
    /\ calls[3].op = "refine" /\ calls[3].status = "raise"
    /\ current_state = calls[2].sections

\* the requests whose handler has started and not yet returned
Running == {r \in 1..MaxRequests : relay.reqs[r].pc = "running"}

\* C13 as stated: in-flight requests interleave, that is, while the handler
\* of one request is between two of its accesses to the shared objects, the
\* handler of another request in flight can start.
C13_RequestsInterleave ==
    \A a \in 1..MaxRequests : \A b \in 1..MaxRequests :
        (relay.reqs[a].pc = "running" /\ relay.reqs[b].pc = "waiting")
        => ENABLED HandlerStarts(b)

\* C13 amended: no lock is taken, but the handlers run one at a time, each
\* from start to return: at most one handler is running; whenever none is,
\* current_state and the processor's narrative and growth points come from
\* the same call; the narrative a finalize read is still the stored one when
\* it converts it.
C13_HandlersRunOneAtATime ==
    /\ Cardinality(Running) <= 1
    /\ \A r \in Running : relay.running = r
    /\ (Running = {} /\ current_state # <<>>)
       => /\ current_state[1].connected_narrative = current_narrative
          /\ current_state[1].growth_points = current_growth_points
    /\ \A r \in Running :
          (relay.reqs[r].kind = "finalize" /\ relay.reqs[r].outcome.status # "raise")
          => /\ current_state # <<>>
             /\ relay.reqs[r].draft = current_state[1].connected_narrative

\* two process requests in flight, the first one's handler between the
\* processor's call and the store into current_state
C13_Witness ==
    /\ relay.reqs[1].kind = "process" /\ relay.reqs[1].pc = "running"
    /\ relay.reqs[1].outcome.status = "ok"
    /\ relay.reqs[2].kind = "process" /\ relay.reqs[2].pc = "waiting"
    /\ current_narrative = "N"
    /\ current_state = <<>>

\* C14: every request whose call raised, whatever the error, is answered
\* with status 500 and the error's message; a request is answered with a
\* success only if its call returned; there is no other status.
C14_FailuresBecome500 ==
    \A r \in 1..MaxRequests :
        relay.reqs[r].pc = "done"
        => /\ relay.reqs[r].response.status_code \in {200, 500}
           /\ relay.reqs[r].outcome.status = "raise"
              => /\ relay.reqs[r].response.status_code = 500
                 /\ relay.reqs[r].response.detail = relay.reqs[r].outcome.error
                 /\ relay.reqs[r].outcome.error \in {RemoteError, FinalizeError, TagsError}
           /\ relay.reqs[r].response.status_code = 200
              => /\ relay.reqs[r].outcome.status = "ok"
                 /\ relay.reqs[r].response.body # <<>>

\* a precondition failure and a remote failure, both answered
C14_Witness ==
    /\ relay.reqs[1].kind = "finalize" /\ relay.reqs[1].pc = "done"
    /\ relay.reqs[1].response = [status_code |-> 500, detail |-> FinalizeError,
                                 body |-> <<>>]
    /\ relay.reqs[2].kind = "refine" /\ relay.reqs[2].pc = "done"
    /\ relay.reqs[2].response = [status_code |-> 500, detail |-> RemoteError,
                                 body |-> <<>>]

====
